---- MODULE Spec2Model ----
(***************************************************************************)
(* Model of src/app.py: the radar chart builder                            *)
(* create_radar_plot_with_threshold and the top-to-bottom script body      *)
(* (tab1 .. tab7) that loads the dataset and renders the views.            *)
(*                                                                         *)
(* Numbers are exact: descriptor values and reference bounds are integers  *)
(* (the script's values in units of one tenth), a quotient is a reduced    *)
(* fraction [n, d] with d > 0, an angle is a fraction of a full turn       *)
(* (2*pi).                                                                 *)
(***************************************************************************)
EXTENDS Integers, Sequences, FiniteSets

VARIABLES
    args,            \* arguments of one call of create_radar_plot_with_threshold
    result,          \* what that call did: not called, a figure, or an exception
    file,            \* data/medicamentos.xlsx, the static storage
    dataframe,       \* the script's global dataframe
    at,              \* position of the running script
    rendered,        \* tabs whose body ran to its end in this run
    error,           \* the uncaught exception that stopped the run, if any
    scatter,         \* tab3: whether a scatter plot was drawn
    farmaco_selecionado,
    polar_plot,      \* tab4: the figure returned by the radar builder
    via_admin,
    df_estatistico,  \* tab5: the describe() table
    prop_quimica,
    pc               \* tab6: the result of posthoc_mannwhitney

radarVars == <<args, result>>
scriptVars == <<file, dataframe, at, rendered, error, scatter, farmaco_selecionado,
                polar_plot, via_admin, df_estatistico, prop_quimica, pc>>
vars == <<args, result, file, dataframe, at, rendered, error, scatter,
          farmaco_selecionado, polar_plot, via_admin, df_estatistico, prop_quimica, pc>>

\* ----------------------------------------------------------------- bounds

\* Longest descriptor / bound list of a generic call of the radar builder.
MaxK == 3

\* Most records in the dataset file.
MaxRecords == 2

\* Number of approval periods a record can fall in.
MaxPeriod == 2

\* Values a descriptor can take in a generic call.
Values == {0, 1, 2}

\* Lower reference bounds of a generic call.
MinBounds == {0, 1}

\* Upper reference bounds of a generic call.
MaxBounds == {1, 2}

\* A name that is not bound (a record-valued one, a frame, a selection).
None == [kind |-> "None"]
NoFrame == <<>>
NoOption == "None"

\* ------------------------------------------------------------- arithmetic

Abs(x) == IF x < 0 THEN -x ELSE x

RECURSIVE GCD(_, _)
GCD(a, b) == IF b = 0 THEN a ELSE GCD(b, a % b)

Sign(x) == IF x < 0 THEN -1 ELSE IF x > 0 THEN 1 ELSE 0

\* The quotient n / d in lowest terms, with d > 0. Python raises before it
\* divides by 0 (DivisionRaises); d = 0 stands for the non-finite quotient
\* (inf, -inf, nan) of an arithmetic that does not raise.
Divide(n, d) ==
    IF d = 0 THEN [n |-> Sign(n), d |-> 0]
    ELSE LET g == GCD(Abs(n), Abs(d))
         IN  [n |-> (Sign(d) * n) \div g, d |-> Abs(d) \div g]

Min2(a, b) == IF a < b THEN a ELSE b

\* zip(values, min_values, max_values) stops at the shortest list.
ZipLen(values, mins, maxs) == Min2(Len(values), Min2(Len(mins), Len(maxs)))

\* s += s[:1]
CloseLoop_Open(s) == s

CloseLoop(s) == s \o SubSeq(s, 1, Min2(1, Len(s)))

\* ------------------------------------------- create_radar_plot_with_threshold

\* (value - min_val) / (max_val - min_val) raises when the divisor is 0.
DivisionRaises_Never(min_val, max_val) == FALSE

DivisionRaises(min_val, max_val) == max_val - min_val = 0

\* One term of the list comprehension of line 53 (divisor # 0).
Normalize_Clamped(value, min_val, max_val) ==
    IF value < min_val THEN Divide(0, 1)
    ELSE IF value > max_val THEN Divide(1, 1)
    ELSE Divide(value - min_val, max_val - min_val)

Normalize(value, min_val, max_val) == Divide(value - min_val, max_val - min_val)

\* np.linspace(0, 2*pi, k, endpoint=False), in turns.
Linspace(k) == [i \in 1..k |-> Divide(i - 1, k)]

\* [1] * len(properties), closed with its first element.
ThresholdValues_Open(k) == [i \in 1..k |-> Divide(1, 1)]

ThresholdValues(k) == CloseLoop([i \in 1..k |-> Divide(1, 1)])

Raised(kind, where) == [kind |-> "raised", err |-> kind, line |-> where]

\* The outcomes of one call. values are the mapping's values in key order.
RadarOutcomes(values, mins, maxs) ==
    LET k == Len(values)
        n == ZipLen(values, mins, maxs)
    IN  IF \E i \in 1..n : DivisionRaises(mins[i], maxs[i])
        THEN {Raised("ZeroDivisionError", 53)}
        ELSE
          LET normalized_values ==
                  CloseLoop([i \in 1..n |-> Normalize(values[i], mins[i], maxs[i])])
              angles == CloseLoop(Linspace(k))
              threshold_values == ThresholdValues(k)
              fig == [kind |-> "fig",
                      polygon |-> [angles |-> angles, radii |-> normalized_values],
                      ring |-> [angles |-> angles, radii |-> threshold_values],
                      xticks |-> SubSeq(angles, 1, Len(angles) - 1)]
          IN  IF Len(angles) # Len(normalized_values)
              THEN {Raised("ValueError", 65)}
              ELSE IF k = 0
              THEN {fig, Raised("ValueError", 65)}  \* an empty polygon: the
                                                    \* plotting library decides
              ELSE {fig}

SeqsUpTo(S, n) == UNION {[1..m -> S] : m \in 0..n}

\* The call of tab4 (lines 189-192) on the descriptors HBD 2, MW 300, QED 0.8,
\* LogP 3, HBA 4, in tenths.
ExampleValues == <<20, 3000, 8, 30, 40>>
min_values == <<0, 1000, 0, 0, 0>>
max_values == <<50, 5000, 10, 50, 100>>

NotCalled == [kind |-> "not called"]

ScriptIdle ==
    /\ file = <<>>
    /\ dataframe = NoFrame
    /\ at = "idle"
    /\ rendered = {}
    /\ error = None
    /\ scatter = FALSE
    /\ farmaco_selecionado = NoOption
    /\ polar_plot = None
    /\ via_admin = NoOption
    /\ df_estatistico = None
    /\ prop_quimica = NoOption
    /\ pc = None

InitRadar ==
    /\ \/ /\ args \in [lipinski_properties : SeqsUpTo(Values, MaxK),
                       min_values : SeqsUpTo(MinBounds, MaxK),
                       max_values : SeqsUpTo(MaxBounds, MaxK)]
       \/ /\ args = [lipinski_properties |-> ExampleValues,
                     min_values |-> min_values,
                     max_values |-> max_values]
    /\ result = NotCalled
    /\ ScriptIdle

create_radar_plot_with_threshold ==
    /\ result = NotCalled
    /\ result' \in RadarOutcomes(args.lipinski_properties, args.min_values, args.max_values)
    /\ UNCHANGED args
    /\ UNCHANGED scriptVars

NextRadar == create_radar_plot_with_threshold

SpecRadar == InitRadar /\ [][NextRadar]_vars

\* ------------------------------------------------------------ the script

Routes == {"oral", "parenteral", "topical"}

Periods == 1..MaxPeriod

\* The options of the radio of line 208.
ViaOptions == {"Todas", "Oral", "Parenteral", "Tópica"}

\* The options of the selectbox of lines 228-232 (one descriptor column
\* stands for the nine), no option while nothing is selected (index=None).
PropOptions == {NoOption, "qed"}

\* What a record holds besides its name: whether Chem.MolFromSmiles parses
\* its canonical_smiles, its route and its period.
RecordCore == [smiles_ok : BOOLEAN, via_administracao : Routes, periodo : Periods]

\* A table whose row i is the drug named i.
MakeDataset(f) ==
    [i \in DOMAIN f |-> [farmaco |-> i,
                         smiles_ok |-> f[i].smiles_ok,
                         via_administracao |-> f[i].via_administracao,
                         periodo |-> f[i].periodo]]

Datasets == {MakeDataset(f) : f \in UNION {[1..m -> RecordCore] : m \in 1..MaxRecords}}

\* Descriptor vectors calculate_lipinski_properties can return (HBD, MW, QED,
\* LogP, HBA, in tenths): one inside the reference ranges, one outside.
Ro5Samples == {ExampleValues, <<60, 6000, 3, 70, 120>>}

\* dataframe[dataframe[col] == x]: a new frame of the matching rows.
Test(r, route) == r.via_administracao = route

Where(df, route) == SelectSeq(df, LAMBDA r : Test(r, route))

\* dataframe[dataframe['farmaco'] == farmaco][...].iloc[0]
FirstRow(df, farmaco) ==
    LET i == CHOOSE i \in 1..Len(df) :
                 /\ df[i].farmaco = farmaco
                 /\ \A j \in 1..(i - 1) : df[j].farmaco # farmaco
    IN  df[i]

\* describe([.25,.5,.75,.9]): the count, and the rows the mean, the deviation
\* and the percentiles are taken over.
Describe(df) == [count |-> Len(df), over |-> {df[i].farmaco : i \in 1..Len(df)}]

\* rename(index={'count': 'contagem', ...})
Rename(d) == [contagem |-> d.count, over |-> d.over]

Undefined == [kind |-> "undefined"]

\* The if/elif chain of lines 209-216: the frame bound to df_estatistico.
StatsFor_NoTopical(df, via) ==
    IF via = "Todas" THEN Describe(df)
    ELSE IF via = "Oral" THEN Describe(Where(df, "oral"))
    ELSE IF via = "Parenteral" THEN Describe(Where(df, "parenteral"))
    ELSE Undefined

StatsFor(df, via) ==
    IF via = "Todas" THEN Describe(df)
    ELSE IF via = "Oral" THEN Describe(Where(df, "oral"))
    ELSE IF via = "Parenteral" THEN Describe(Where(df, "parenteral"))
    ELSE IF via = "Tópica" THEN Describe(Where(df, "topical"))
    ELSE Undefined

\* The names lines 209-216 bind: df_estatistico only, dataframe is kept.
Tab5Body_InPlace(df, via) ==
    LET sub == IF via = "Todas" THEN df
               ELSE IF via = "Oral" THEN Where(df, "oral")
               ELSE IF via = "Parenteral" THEN Where(df, "parenteral")
               ELSE Where(df, "topical")
    IN  [dataframe |-> sub, df_estatistico |-> Describe(sub)]

Tab5Body(df, via) == [dataframe |-> df, df_estatistico |-> StatsFor(df, via)]

\* The frame line 256 hands to posthoc_mannwhitney.
PosthocInput_Filtered(df, via) ==
    IF via = "Todas" THEN df
    ELSE IF via = "Oral" THEN Where(df, "oral")
    ELSE IF via = "Parenteral" THEN Where(df, "parenteral")
    ELSE Where(df, "topical")

PosthocInput(df, via) == df

Groups(df) == {df[i].periodo : i \in 1..Len(df)}

Sample(df, p) == {df[i].farmaco : i \in {j \in 1..Len(df) : df[j].periodo = p}}

\* One Mann-Whitney test per unordered pair of periods of the frame.
PairwiseTests(df) ==
    {[a |-> p, b |-> q, x |-> Sample(df, p), y |-> Sample(df, q)] :
        <<p, q>> \in {t \in Groups(df) \X Groups(df) : t[1] < t[2]}}

\* posthoc_mannwhitney(df, val_col, group_col="periodo", p_adjust='holm'). With
\* no pair to test, the Holm adjustment of an empty list is the library's to
\* decide: an empty matrix or an exception.
PosthocOutcomes(df) ==
    LET matrix == [kind |-> "matrix", groups |-> Groups(df), tests |-> PairwiseTests(df)]
    IN  IF Cardinality(Groups(df)) < 2
        THEN {matrix, Raised("Exception", 256)}
        ELSE {matrix}

RadarIdle ==
    /\ args = [lipinski_properties |-> <<>>, min_values |-> <<>>, max_values |-> <<>>]
    /\ result = NotCalled

Init ==
    /\ file \in Datasets
    /\ dataframe = NoFrame
    /\ at = "tab1"
    /\ rendered = {}
    /\ error = None
    /\ scatter = FALSE
    /\ farmaco_selecionado = NoOption
    /\ polar_plot = None
    /\ via_admin = NoOption
    /\ df_estatistico = None
    /\ prop_quimica = NoOption
    /\ pc = None
    /\ RadarIdle

\* An uncaught exception ends the script run; nothing below it executes.
Stop(tab, exc) ==
    /\ at' = "stopped"
    /\ error' = [tab |-> tab, err |-> exc.err, line |-> exc.line]
    /\ UNCHANGED rendered

Goto(tab, next) ==
    /\ at' = next
    /\ rendered' = rendered \cup {tab}
    /\ UNCHANGED error

\* with tab1: the presentation text.
Tab1 ==
    /\ at = "tab1"
    /\ Goto("tab1", "tab2")
    /\ UNCHANGED <<file, dataframe, scatter, farmaco_selecionado, polar_plot,
                   via_admin, df_estatistico, prop_quimica, pc>>
    /\ UNCHANGED radarVars

\* with tab2: dataframe = pd.read_excel('data/medicamentos.xlsx').
Tab2 ==
    /\ at = "tab2"
    /\ dataframe' = file
    /\ Goto("tab2", "tab3")
    /\ UNCHANGED <<file, scatter, farmaco_selecionado, polar_plot,
                   via_admin, df_estatistico, prop_quimica, pc>>
    /\ UNCHANGED radarVars

\* with tab3: the scatter plot is drawn once two axes are selected.
Tab3 ==
    /\ at = "tab3"
    /\ \E eixos_selecionados \in 0..2 : scatter' = (eixos_selecionados = 2)
    /\ Goto("tab3", "tab4")
    /\ UNCHANGED <<file, dataframe, farmaco_selecionado, polar_plot,
                   via_admin, df_estatistico, prop_quimica, pc>>
    /\ UNCHANGED radarVars

\* with tab4: structure, formula and radar chart of the selected drug.
Tab4 ==
    /\ at = "tab4"
    /\ \E sel \in {dataframe[i].farmaco : i \in 1..Len(dataframe)} :
          /\ farmaco_selecionado' = sel
          /\ IF ~FirstRow(dataframe, sel).smiles_ok
             THEN /\ Stop("tab4", Raised("ValueError", 186))
                  /\ UNCHANGED polar_plot
             ELSE \E ro5_props \in Ro5Samples :
                  \E fig \in RadarOutcomes(ro5_props, min_values, max_values) :
                      IF fig.kind = "raised"
                      THEN /\ Stop("tab4", fig)
                           /\ UNCHANGED polar_plot
                      ELSE /\ polar_plot' = fig
                           /\ Goto("tab4", "tab5")
    /\ UNCHANGED <<file, dataframe, scatter, via_admin, df_estatistico, prop_quimica, pc>>
    /\ UNCHANGED radarVars

\* with tab5: descriptive statistics of the selected route.
Tab5 ==
    /\ at = "tab5"
    /\ \E via \in ViaOptions :
          LET body == Tab5Body(dataframe, via)
          IN  /\ via_admin' = via
              /\ dataframe' = body.dataframe
              /\ IF body.df_estatistico = Undefined
                 THEN /\ Stop("tab5", Raised("NameError", 219))
                      /\ UNCHANGED df_estatistico
                 ELSE /\ df_estatistico' = Rename(body.df_estatistico)
                      /\ Goto("tab5", "tab6")
    /\ UNCHANGED <<file, scatter, farmaco_selecionado, polar_plot, prop_quimica, pc>>
    /\ UNCHANGED radarVars

\* with tab6: box plot and post-hoc heatmap of the selected property.
Tab6 ==
    /\ at = "tab6"
    /\ \E prop \in PropOptions :
          /\ prop_quimica' = prop
          /\ IF prop = NoOption
             THEN /\ UNCHANGED pc
                  /\ Goto("tab6", "tab7")
             ELSE \E out \in PosthocOutcomes(PosthocInput(dataframe, via_admin)) :
                      IF out.kind = "raised"
                      THEN /\ Stop("tab6", out)
                           /\ UNCHANGED pc
                      ELSE /\ pc' = out
                           /\ Goto("tab6", "tab7")
    /\ UNCHANGED <<file, dataframe, scatter, farmaco_selecionado, polar_plot,
                   via_admin, df_estatistico>>
    /\ UNCHANGED radarVars

\* with tab7: the glossary.
Tab7 ==
    /\ at = "tab7"
    /\ Goto("tab7", "done")
    /\ UNCHANGED <<file, dataframe, scatter, farmaco_selecionado, polar_plot,
                   via_admin, df_estatistico, prop_quimica, pc>>
    /\ UNCHANGED radarVars

\* A widget interaction reruns the script from its first line in a fresh
\* namespace; the file stays as it is.
Rerun ==
    /\ at \in {"done", "stopped"}
    /\ at' = "tab1"
    /\ dataframe' = NoFrame
    /\ rendered' = {}
    /\ error' = None
    /\ scatter' = FALSE
    /\ farmaco_selecionado' = NoOption
    /\ polar_plot' = None
    /\ via_admin' = NoOption
    /\ df_estatistico' = None
    /\ prop_quimica' = NoOption
    /\ pc' = None
    /\ UNCHANGED file
    /\ UNCHANGED radarVars

Next == Tab1 \/ Tab2 \/ Tab3 \/ Tab4 \/ Tab5 \/ Tab6 \/ Tab7 \/ Rerun

Spec == Init /\ [][Next]_vars

\* ------------------------------------------------ properties of the radar call

K == Len(args.lipinski_properties)

Called == result # NotCalled

EqualLengths == Len(args.min_values) = K /\ Len(args.max_values) = K

\* Descriptors that have both a lower and an upper reference bound.
Bounded == 1..ZipLen(args.lipinski_properties, args.min_values, args.max_values)

Degenerate == \E i \in Bounded : args.max_values[i] = args.min_values[i]

ValidInput ==
    /\ EqualLengths
    /\ K >= 3
    /\ \A i \in 1..K : args.max_values[i] > args.min_values[i]

\* r is the quotient (value_i - min_i) / (max_i - min_i).
IsNormalized(r, i) ==
    /\ r.d > 0
    /\ r.n * (args.max_values[i] - args.min_values[i])
         = (args.lipinski_properties[i] - args.min_values[i]) * r.d

One == [n |-> 1, d |-> 1]

\* C1 (as claimed): a call whose three lists do not all have the same length
\* K, or with K < 3, fails with InvalidInputError and yields no chart.
C1_InputsValidated ==
    (Called /\ ~(EqualLengths /\ K >= 3))
        => (result.kind = "raised" /\ result.err = "InvalidInputError")

C9_PolygonClosure ==
    /\ (Called /\ ValidInput) =>
          /\ result.kind = "fig"
          /\ Len(result.polygon.angles) = K + 1
          /\ Len(result.polygon.radii) = K + 1
          /\ \A i \in 1..K :
                /\ result.polygon.angles[i].d > 0
                /\ result.polygon.angles[i].n * K = (i - 1) * result.polygon.angles[i].d
                /\ IsNormalized(result.polygon.radii[i], i)
          /\ result.polygon.angles[K + 1] = result.polygon.angles[1]
          /\ result.polygon.angles[K + 1].n = 0
          /\ result.polygon.radii[K + 1] = result.polygon.radii[1]
    /\ result.kind = "fig" => Len(result.polygon.angles) = Len(result.polygon.radii)

C9_Witness ==
    /\ Called
    /\ ValidInput
    /\ result.kind = "fig"
    /\ result.polygon.radii[1] # result.polygon.radii[2]
    /\ result.polygon.radii[K + 1] = result.polygon.radii[1]

\* C10: whenever a chart of K >= 1 descriptors is plotted, the reference ring
\* is a closed polygon of K+1 vertices, all of radius exactly 1, at the angles
\* of the value polygon, whatever the values and the reference bounds.
C10_ReferenceRing ==
    (result.kind = "fig" /\ K >= 1) =>
        /\ Len(result.ring.radii) = K + 1
        /\ \A i \in 1..(K + 1) : result.ring.radii[i] = One
        /\ result.ring.angles = result.polygon.angles
        /\ Len(result.ring.angles) = K + 1

C10_Witness ==
    /\ result.kind = "fig"
    /\ K >= 3
    /\ \E i \in 1..K : result.polygon.radii[i].n > result.polygon.radii[i].d
    /\ \A i \in 1..(K + 1) : result.ring.radii[i] = One

\* ----------------------------------------------- properties of the script run

RunEnded == at \in {"done", "stopped"}

\* The rows of frame df whose route is the one the radio option names.
Matching(df, via) ==
    {df[i].farmaco : i \in {j \in 1..Len(df) :
        \/ via = "Todas"
        \/ via = "Oral" /\ df[j].via_administracao = "oral"
        \/ via = "Parenteral" /\ df[j].via_administracao = "parenteral"
        \/ via = "Tópica" /\ df[j].via_administracao = "topical"}}

\* Line 256 was reached in this run.
PosthocExecuted == pc # None \/ (error # None /\ error.line = 256)

\* C4 (as claimed): when the drug selected in the radar tab has an unparseable
\* structure, the run still renders the views after it (statistics, period
\* comparison, glossary).
C4_FailureLocalToView ==
    (RunEnded /\ error # None /\ error.tab = "tab4")
        => {"tab5", "tab6", "tab7"} \subseteq rendered

\* C5 (as claimed): with fewer than 2 distinct periods in the data the
\* pairwise post-hoc comparison is not executed.
C5_PosthocSkipped ==
    (Cardinality(Groups(file)) < 2) => ~PosthocExecuted

\* C6 (as claimed): the periods compared and the observations of each pairwise
\* test are those of the records matching the selected route.
C6_MatrixOverFilteredRecords ==
    (pc # None) =>
        /\ pc.groups = {file[i].periodo :
                           i \in {j \in 1..Len(file) : file[j].farmaco \in Matching(file, via_admin)}}
        /\ \A t \in pc.tests : (t.x \cup t.y) \subseteq Matching(file, via_admin)

\* C6 (amended): whatever route is selected, the periods compared and the
\* observations of each pairwise test are those of all records of the
\* dataset; only the descriptive statistics are taken over the records
\* matching the selected route.
C6_MatrixOverAllRecords ==
    (pc # None) =>
        /\ pc.groups = {file[i].periodo : i \in 1..Len(file)}
        /\ pc.tests = {[a |-> p, b |-> q,
                        x |-> {file[i].farmaco : i \in {j \in 1..Len(file) : file[j].periodo = p}},
                        y |-> {file[i].farmaco : i \in {j \in 1..Len(file) : file[j].periodo = q}}] :
                          <<p, q>> \in {t \in pc.groups \X pc.groups : t[1] < t[2]}}
        /\ df_estatistico.over = Matching(file, via_admin)

C6_Witness ==
    /\ pc # None
    /\ via_admin = "Oral"
    /\ pc.tests # {}
    /\ \E t \in pc.tests : ~((t.x \cup t.y) \subseteq Matching(file, via_admin))

\* C7: for every route option, one matching no record included, the
\* statistics view ends with a table (of count 0 when nothing matches) and
\* never with an error; the table is defined before it is renamed.
C7_EmptyResultNotError ==
    /\ error # None => error.tab # "tab5"
    /\ at \in {"tab6", "tab7", "done"} => "tab5" \in rendered
    /\ "tab5" \in rendered =>
          /\ via_admin \in ViaOptions
          /\ df_estatistico # None
          /\ df_estatistico.contagem = Cardinality(Matching(file, via_admin))
          /\ df_estatistico.over = Matching(file, via_admin)

C7_Witness ==
    /\ "tab5" \in rendered
    /\ via_admin = "Tópica"
    /\ Matching(file, via_admin) = {}
    /\ df_estatistico.contagem = 0
    /\ error = None

\* C8: once loaded, the dataset is never changed by a view: after every
\* step of every run the frame holds the records of the file, in order.
C8_DatasetNeverMutated ==
    /\ at \notin {"tab1", "tab2"} => dataframe = file
    /\ dataframe \in {NoFrame, file}

C8_Witness ==
    /\ at = "done"
    /\ dataframe = file
    /\ scatter
    /\ via_admin = "Oral"
    /\ df_estatistico.contagem < Len(file)
    /\ pc # None

====
